---- MODULE Spec2Model ----
(***************************************************************************)
(* LEGO workflow interpreter (src/main.py): the colour classification of   *)
(* the detector, the detector's emission loop, and bricks_to_workflow.     *)
(***************************************************************************)
EXTENDS Integers, Sequences, FiniteSets, TLC

VARIABLES pc, bricks, brick_counter, color_idx, skipped, outcome, memo, hsv, mask

vars == <<pc, bricks, brick_counter, color_idx, skipped, outcome, memo, hsv, mask>>

(***************************************************************************)
(* Bounds of the model.                                                    *)
(***************************************************************************)
\* longest brick list handed to bricks_to_workflow
MaxBricks == 3
\* x coordinates are drawn from 1..MaxX
MaxX == 2
\* most contours findContours reports for one colour mask
MaxContours == 2

(***************************************************************************)
(* Data model and constants.                                               *)
(***************************************************************************)
\* f"b{brick_counter}": the letter b followed by the counter
BrickId(n) == <<"b", n>>

Brick(id, color, x, y) == [id |-> id, color |-> color, x |-> x, y |-> y]

Node(id, type) == [id |-> id, type |-> type]

COLOR_TO_TYPE ==
  [c \in {"green", "blue", "yellow", "red"} |->
     CASE c = "green" -> "Start"
       [] c = "blue" -> "Action"
       [] c = "yellow" -> "Decision"
       [] c = "red" -> "End"]

\* the y of every brick of example_workflow
ExampleY == 200

\* "purple" stands for every colour string that is no key of COLOR_TO_TYPE
InputColors == {"green", "blue", "yellow", "red", "purple"}

XVals == 1..MaxX

(***************************************************************************)
(* bricks_to_workflow                                                      *)
(***************************************************************************)
valid_bricks(bs) == SelectSeq(bs, LAMBDA b : b.color \in DOMAIN COLOR_TO_TYPE)

\* variant: b goes in front of the elements whose key equals its key
insert_sorted_ties_first(s, b) ==
  LET k == Cardinality({i \in 1..Len(s) : s[i].x < b.x})
  IN SubSeq(s, 1, k) \o <<b>> \o SubSeq(s, k + 1, Len(s))

\* one step of a stable sort: b goes behind every element whose key is <= its key
insert_sorted(s, b) ==
  LET k == Cardinality({i \in 1..Len(s) : s[i].x <= b.x})
  IN SubSeq(s, 1, k) \o <<b>> \o SubSeq(s, k + 1, Len(s))

\* variant: the list is left in input order
sorted_input_order(s) == s

RECURSIVE sorted(_)
\* sorted(valid_bricks, key=lambda b: b.x): ascending, stable
sorted(s) ==
  IF s = <<>> THEN <<>>
  ELSE insert_sorted(sorted(SubSeq(s, 1, Len(s) - 1)), s[Len(s)])

\* variant: the node takes the place in the list as its identifier
make_nodes_renumbered(sorted_bricks) ==
  [i \in 1..Len(sorted_bricks) |->
     [id |-> <<"b", i>>, type |-> COLOR_TO_TYPE[sorted_bricks[i].color]]]

make_nodes(sorted_bricks) ==
  [i \in 1..Len(sorted_bricks) |->
     Node(sorted_bricks[i].id, COLOR_TO_TYPE[sorted_bricks[i].color])]

\* variant: every edge starts at the first brick
make_edges_from_first(sorted_bricks) ==
  [i \in 1..(Len(sorted_bricks) - 1) |-> <<sorted_bricks[1].id, sorted_bricks[i + 1].id>>]

make_edges(sorted_bricks) ==
  [i \in 1..(Len(sorted_bricks) - 1) |-> <<sorted_bricks[i].id, sorted_bricks[i + 1].id>>]

NoOutcome == [kind |-> "None", count |-> 0, nodes |-> <<>>, edges |-> <<>>]

\* raise ValueError(...): the failure kind and, for the Duplicate kinds, the count
Fail(kind, count) == [kind |-> kind, count |-> count, nodes |-> <<>>, edges |-> <<>>]

WorkflowGraph(nodes, edges) == [kind |-> "Graph", count |-> 0, nodes |-> nodes, edges |-> edges]

\* variant: the check for more than one Start is missing
validate_no_duplicate_start(nodes) ==
  LET start_nodes == SelectSeq(nodes, LAMBDA n : n.type = "Start")
      end_nodes == SelectSeq(nodes, LAMBDA n : n.type = "End")
  IN IF Len(start_nodes) = 0 THEN [kind |-> "MissingStart", count |-> 0, nodes |-> <<>>, edges |-> <<>>]
     ELSE IF Len(end_nodes) = 0 THEN [kind |-> "MissingEnd", count |-> 0, nodes |-> <<>>, edges |-> <<>>]
     ELSE IF Len(end_nodes) > 1 THEN [kind |-> "DuplicateEnd", count |-> Len(end_nodes), nodes |-> <<>>, edges |-> <<>>]
     ELSE [kind |-> "ok", count |-> 0, nodes |-> <<>>, edges |-> <<>>]

\* variant: the End checks come before the Start checks
validate_end_first(nodes) ==
  LET start_nodes == SelectSeq(nodes, LAMBDA n : n.type = "Start")
      end_nodes == SelectSeq(nodes, LAMBDA n : n.type = "End")
  IN IF Len(end_nodes) = 0 THEN [kind |-> "MissingEnd", count |-> 0, nodes |-> <<>>, edges |-> <<>>]
     ELSE IF Len(end_nodes) > 1 THEN [kind |-> "DuplicateEnd", count |-> Len(end_nodes), nodes |-> <<>>, edges |-> <<>>]
     ELSE IF Len(start_nodes) = 0 THEN [kind |-> "MissingStart", count |-> 0, nodes |-> <<>>, edges |-> <<>>]
     ELSE IF Len(start_nodes) > 1 THEN [kind |-> "DuplicateStart", count |-> Len(start_nodes), nodes |-> <<>>, edges |-> <<>>]
     ELSE [kind |-> "ok", count |-> 0, nodes |-> <<>>, edges |-> <<>>]

\* variant: the Duplicate failures carry the number of all nodes
validate_count_all(nodes) ==
  LET start_nodes == SelectSeq(nodes, LAMBDA n : n.type = "Start")
      end_nodes == SelectSeq(nodes, LAMBDA n : n.type = "End")
  IN IF Len(start_nodes) = 0 THEN [kind |-> "MissingStart", count |-> 0, nodes |-> <<>>, edges |-> <<>>]
     ELSE IF Len(start_nodes) > 1 THEN [kind |-> "DuplicateStart", count |-> Len(nodes), nodes |-> <<>>, edges |-> <<>>]
     ELSE IF Len(end_nodes) = 0 THEN [kind |-> "MissingEnd", count |-> 0, nodes |-> <<>>, edges |-> <<>>]
     ELSE IF Len(end_nodes) > 1 THEN [kind |-> "DuplicateEnd", count |-> Len(nodes), nodes |-> <<>>, edges |-> <<>>]
     ELSE [kind |-> "ok", count |-> 0, nodes |-> <<>>, edges |-> <<>>]

\* the four count checks, in the order of the code; "ok" when none raises
validate(nodes) ==
  LET start_nodes == SelectSeq(nodes, LAMBDA n : n.type = "Start")
      end_nodes == SelectSeq(nodes, LAMBDA n : n.type = "End")
  IN IF Len(start_nodes) = 0 THEN Fail("MissingStart", 0)
     ELSE IF Len(start_nodes) > 1 THEN Fail("DuplicateStart", Len(start_nodes))
     ELSE IF Len(end_nodes) = 0 THEN Fail("MissingEnd", 0)
     ELSE IF Len(end_nodes) > 1 THEN Fail("DuplicateEnd", Len(end_nodes))
     ELSE [kind |-> "ok", count |-> 0, nodes |-> <<>>, edges |-> <<>>]

bricks_to_workflow(bs) ==
  LET vb == valid_bricks(bs)
      sorted_bricks == sorted(vb)
      nodes == make_nodes(sorted_bricks)
      v == validate(nodes)
  IN IF vb = <<>> THEN Fail("NoInterpretableObjects", 0)
     ELSE IF v.kind # "ok" THEN v
     ELSE WorkflowGraph(nodes, make_edges(sorted_bricks))

(***************************************************************************)
(* Inputs of the callers of bricks_to_workflow.                            *)
(***************************************************************************)
\* the list built by example_workflow
example_bricks ==
  <<Brick(BrickId(1), "green", 100, ExampleY), Brick(BrickId(2), "blue", 250, ExampleY),
    Brick(BrickId(3), "yellow", 400, ExampleY), Brick(BrickId(4), "blue", 550, ExampleY),
    Brick(BrickId(5), "red", 700, ExampleY)>>

\* the first three bricks of that list
example_prefix == SubSeq(example_bricks, 1, 3)

Probes == {example_bricks, example_prefix}

\* the identifier the detector would give the next brick of the list
FreshId == BrickId(Len(bricks) + 1)

\* the lists a caller passes next: the empty list, the list of the latest call
\* again, or that list with one more brick whose identifier is drawn from ids
CallerLists(ids) ==
  {<<>>, bricks} \cup
  IF Len(bricks) < MaxBricks
    THEN {Append(bricks, Brick(t[1], t[2], t[3], ExampleY)) : t \in ids \X InputColors \X XVals}
    ELSE {}

(***************************************************************************)
(* State machine.  pc is the position of the running request.  Two history *)
(* variables: memo is the outcome of the latest call on each probe list,   *)
(* skipped tells whether the running detector call rejected a region.      *)
(***************************************************************************)
Init ==
  /\ pc = "idle"
  /\ bricks = <<>>
  /\ brick_counter = 1
  /\ color_idx = 1
  /\ skipped = FALSE
  /\ outcome = NoOutcome
  /\ memo = [p \in Probes |-> NoOutcome]
  /\ hsv = <<0, 0, 0>>
  /\ mask = {}

\* one call bricks_to_workflow(input)
Assemble(input) ==
  /\ pc \in {"idle", "called"}
  /\ pc' = "called"
  /\ bricks' = input
  /\ outcome' = bricks_to_workflow(input)
  /\ memo' = IF input \in Probes THEN [memo EXCEPT ![input] = bricks_to_workflow(input)] ELSE memo
  /\ UNCHANGED <<brick_counter, color_idx, skipped, hsv, mask>>

\* callers that may reuse the identifier b1 (lists no detector run produces)
AssembleAny == \E input \in CallerLists({FreshId, BrickId(1)}) : Assemble(input)

\* callers that number the bricks b1, b2, ... as the detector does
AssembleNumbered == \E input \in CallerLists({FreshId}) : Assemble(input)

AssembleProbe == \E p \in Probes : Assemble(p)

Next == AssembleAny

Spec == Init /\ [][Next]_vars

NextRepeat == AssembleNumbered \/ AssembleProbe

SpecRepeat == Init /\ [][NextRepeat]_vars

(***************************************************************************)
(* detect_bricks_from_image: the emission loop.  The masks' contours are   *)
(* the output of OpenCV and are drawn from a small set.                    *)
(***************************************************************************)
\* minimum area threshold
MinArea == 100

\* HSV_RANGES.items(): the keys in insertion order
COLOR_ORDER == <<"green", "blue", "yellow", "red">>

Contour(area, m00, m10, m01) == [area |-> area, m00 |-> m00, m10 |-> m10, m01 |-> m01]

\* what findContours, contourArea and moments can report for one region: a region
\* under the area threshold, a region whose zeroth moment is 0, and regions of
\* area MinArea whose centroid is (cx, ExampleY)
CentroidXs == {100, 250}

Contours ==
  {Contour(MinArea - 1, MinArea - 1, MinArea - 1, (MinArea - 1) * ExampleY),
   Contour(MinArea, 0, 0, 0)}
  \cup {Contour(MinArea, MinArea, MinArea * cx, MinArea * ExampleY) : cx \in CentroidXs}

RECURSIVE ContourLists(_)
ContourLists(n) ==
  IF n = 0 THEN {<<>>}
  ELSE ContourLists(n - 1) \cup
       {Append(s, c) : s \in {l \in ContourLists(n - 1) : Len(l) = n - 1}, c \in Contours}

RECURSIVE for_contour_counts_rejected(_, _, _, _)
\* variant: a rejected region also advances brick_counter
for_contour_counts_rejected(contours, color_name, bs, counter) ==
  IF contours = <<>> THEN [bricks |-> bs, brick_counter |-> counter]
  ELSE LET contour == Head(contours)
       IN IF contour.area < MinArea \/ contour.m00 = 0
            THEN for_contour_counts_rejected(Tail(contours), color_name, bs, counter + 1)
          ELSE for_contour_counts_rejected(Tail(contours), color_name,
                           Append(bs, Brick(BrickId(counter), color_name,
                                            contour.m10 \div contour.m00,
                                            contour.m01 \div contour.m00)),
                           counter + 1)

RECURSIVE for_contour(_, _, _, _)
\* the loop "for contour in contours" of one colour; bs and counter are the
\* values of bricks and brick_counter when the loop starts
for_contour(contours, color_name, bs, counter) ==
  IF contours = <<>> THEN [bricks |-> bs, brick_counter |-> counter]
  ELSE LET contour == Head(contours)
       IN IF contour.area < MinArea
            THEN for_contour(Tail(contours), color_name, bs, counter)
          ELSE IF contour.m00 = 0
            THEN for_contour(Tail(contours), color_name, bs, counter)
          ELSE for_contour(Tail(contours), color_name,
                           Append(bs, Brick(BrickId(counter), color_name,
                                            contour.m10 \div contour.m00,
                                            contour.m01 \div contour.m00)),
                           counter + 1)

\* a call of detect_bricks_from_image starts: bricks = [], brick_counter = 1
DetectStart ==
  /\ pc \in {"idle", "analyzed"}
  /\ pc' = "detect"
  /\ bricks' = <<>>
  /\ brick_counter' = 1
  /\ color_idx' = 1
  /\ skipped' = FALSE
  /\ outcome' = NoOutcome
  /\ UNCHANGED <<memo, hsv, mask>>

\* one iteration of "for color_name, hsv_range in HSV_RANGES.items()"
DetectColor ==
  /\ pc = "detect"
  /\ color_idx <= Len(COLOR_ORDER)
  /\ \E contours \in ContourLists(MaxContours) :
       LET r == for_contour(contours, COLOR_ORDER[color_idx], bricks, brick_counter)
       IN /\ bricks' = r.bricks
          /\ brick_counter' = r.brick_counter
          /\ skipped' = (skipped \/ Len(r.bricks) - Len(bricks) < Len(contours))
  /\ color_idx' = color_idx + 1
  /\ UNCHANGED <<pc, outcome, memo, hsv, mask>>

\* return bricks
DetectReturn ==
  /\ pc = "detect"
  /\ color_idx > Len(COLOR_ORDER)
  /\ pc' = "returned"
  /\ UNCHANGED <<bricks, brick_counter, color_idx, skipped, outcome, memo, hsv, mask>>

\* analyze_image after the detector returned: 400 when no brick was detected,
\* else the outcome of bricks_to_workflow
AnalyzeImage ==
  /\ pc = "returned"
  /\ pc' = "analyzed"
  /\ outcome' = IF bricks = <<>> THEN Fail("NoBricksDetected", 0) ELSE bricks_to_workflow(bricks)
  /\ UNCHANGED <<bricks, brick_counter, color_idx, skipped, memo, hsv, mask>>

NextDetect == DetectStart \/ DetectColor \/ DetectReturn \/ AnalyzeImage

SpecDetect == Init /\ [][NextDetect]_vars

(***************************************************************************)
(* The colour classification of the detector: cv2.inRange per class.       *)
(***************************************************************************)
\* largest hue of the ranges
MaxHue == 180

\* largest saturation and value
MaxSV == 255

HSV_RANGES ==
  [c \in {"green", "blue", "yellow", "red"} |->
     CASE c = "green" -> [lo |-> <<35, 50, 50>>, hi |-> <<85, MaxSV, MaxSV>>]
       [] c = "blue" -> [lo |-> <<90, 50, 50>>, hi |-> <<130, MaxSV, MaxSV>>]
       [] c = "yellow" -> [lo |-> <<20, 100, 100>>, hi |-> <<35, MaxSV, MaxSV>>]
       [] c = "red" -> <<[lo |-> <<0, 50, 50>>, hi |-> <<10, MaxSV, MaxSV>>],
                         [lo |-> <<170, 50, 50>>, hi |-> <<MaxHue, MaxSV, MaxSV>>]>>]

\* cv2.inRange on one pixel: every channel inside its bounds, both ends included
inRange(p, lowerb, upperb) == \A k \in 1..3 : lowerb[k] <= p[k] /\ p[k] <= upperb[k]

\* variant: the red mask is the first red range only
color_mask_one_range(color_name, p) ==
  LET hsv_range == HSV_RANGES[color_name]
  IN IF color_name = "red"
       THEN inRange(p, hsv_range[1].lo, hsv_range[1].hi)
       ELSE inRange(p, hsv_range.lo, hsv_range.hi)

\* the value of the class's mask at a pixel p, before the morphology
color_mask(color_name, p) ==
  LET hsv_range == HSV_RANGES[color_name]
  IN IF color_name = "red"
       THEN \/ inRange(p, hsv_range[1].lo, hsv_range[1].hi)
            \/ inRange(p, hsv_range[2].lo, hsv_range[2].hi)
       ELSE inRange(p, hsv_range.lo, hsv_range.hi)

\* saturations and values tried: 0 and every saturation or value bound of
\* HSV_RANGES, each with its two neighbours (inRange only compares with bounds)
SVSamples ==
  LET bounds == {0} \cup {HSV_RANGES["green"].lo[k] : k \in 2..3}
                    \cup {HSV_RANGES["yellow"].lo[k] : k \in 2..3}
                    \cup {MaxSV}
  IN {t + d : t \in bounds, d \in {-1, 0, 1}} \cap (0..MaxSV)

Pixels == (0..MaxHue) \X SVSamples \X SVSamples

InitPixel ==
  /\ pc = "pixel"
  /\ hsv \in Pixels
  /\ mask = {}
  /\ bricks = <<>>
  /\ brick_counter = 1
  /\ color_idx = 1
  /\ skipped = FALSE
  /\ outcome = NoOutcome
  /\ memo = [p \in Probes |-> NoOutcome]

\* the masks of the four classes at the pixel hsv
Classify ==
  /\ pc = "pixel"
  /\ pc' = "masked"
  /\ mask' = {c \in DOMAIN HSV_RANGES : color_mask(c, hsv)}
  /\ UNCHANGED <<hsv, bricks, brick_counter, color_idx, skipped, outcome, memo>>

NextPixel == Classify

SpecPixel == InitPixel /\ [][NextPixel]_vars

(***************************************************************************)
(* Properties of bricks_to_workflow.                                       *)
(***************************************************************************)
\* the objects of the input list whose colour is one of the four classes
Recognized == SelectSeq(bricks, LAMBDA b : b.color \in {"green", "blue", "yellow", "red"})

\* the number of input objects of colour c
CountColor(c) == Cardinality({i \in 1..Len(bricks) : bricks[i].color = c})

\* the kind the fixed table gives colour c
KindOf(c) ==
  CASE c = "green" -> "Start" [] c = "blue" -> "Action"
    [] c = "yellow" -> "Decision" [] c = "red" -> "End"

CountKind(k) == Cardinality({i \in 1..Len(outcome.nodes) : outcome.nodes[i].type = k})

Returned == pc = "called" /\ outcome.kind = "Graph"

\* C1: a returned graph has exactly one node of kind Start and exactly one of kind End
C1_ExactlyOneStartEnd == Returned => CountKind("Start") = 1 /\ CountKind("End") = 1

C1_Witness == Returned /\ Len(outcome.nodes) = 3 /\ Len(bricks) = 3

Injections(n) == {f \in [1..n -> 1..n] : \A i, j \in 1..n : f[i] = f[j] => i = j}

\* C2: the nodes of a returned graph are the recognized objects in ascending x
\* order, and edge i is the pair (id of node i, id of node i+1)
C2_AscendingChain ==
  Returned =>
    LET n == Len(outcome.nodes)
    IN /\ n = Len(Recognized)
       /\ \E f \in Injections(n) :
            /\ \A i \in 1..n : outcome.nodes[i].id = Recognized[f[i]].id
            /\ \A i \in 1..n : outcome.nodes[i].type = KindOf(Recognized[f[i]].color)
            /\ \A i \in 1..(n - 1) : Recognized[f[i]].x <= Recognized[f[i + 1]].x
       /\ Len(outcome.edges) = n - 1
       /\ \A i \in 1..(n - 1) :
            outcome.edges[i] = <<outcome.nodes[i].id, outcome.nodes[i + 1].id>>

C2_Witness ==
  /\ Returned
  /\ Len(outcome.nodes) = 3
  /\ \E i, j \in 1..Len(Recognized) : i < j /\ Recognized[i].x > Recognized[j].x

NodeIds == {outcome.nodes[i].id : i \in 1..Len(outcome.nodes)}

EdgeIdx == 1..Len(outcome.edges)

\* the identifiers reachable from a along one or more edges
RECURSIVE ReachFrom(_, _)
ReachFrom(front, done) ==
  LET nxt == {outcome.edges[i][2] : i \in {j \in EdgeIdx : outcome.edges[j][1] \in front}}
  IN IF nxt \subseteq done THEN done ELSE ReachFrom(nxt \ done, done \cup nxt)

\* n-1 edges over n distinct identifiers, every identifier on the path, at most
\* one outgoing and one incoming edge per identifier, no cycle
IsSimplePath ==
  LET n == Len(outcome.nodes)
  IN /\ Len(outcome.edges) = n - 1
     /\ Cardinality(NodeIds) = n
     /\ \A i \in EdgeIdx : outcome.edges[i][1] \in NodeIds /\ outcome.edges[i][2] \in NodeIds
     /\ \A a \in NodeIds : Cardinality({i \in EdgeIdx : outcome.edges[i][1] = a}) <= 1
     /\ \A a \in NodeIds : Cardinality({i \in EdgeIdx : outcome.edges[i][2] = a}) <= 1
     /\ \A a \in NodeIds : a \notin ReachFrom({a}, {})
     /\ n > 1 => \A a \in NodeIds :
                   \E i \in EdgeIdx : outcome.edges[i][1] = a \/ outcome.edges[i][2] = a

DistinctIds ==
  \A i, j \in 1..Len(Recognized) : Recognized[i].id = Recognized[j].id => i = j

\* C3 as stated: for every accepted input list the edges form a single simple
\* path over the node identifiers
C3_PathAnyInput == Returned => IsSimplePath

\* C3 as amended: the edge list always has n-1 entries, and when the recognized
\* objects have pairwise distinct identifiers the edges form a single simple
\* path that visits every node exactly once
C3_PathDistinctIds ==
  Returned =>
    /\ Len(outcome.edges) = Len(outcome.nodes) - 1
    /\ DistinctIds => IsSimplePath

C3_Witness == Returned /\ Len(outcome.nodes) = 3 /\ DistinctIds /\ IsSimplePath

\* the outcome kind decided from the colour counts of the input list, "Graph" for success
ExpectedKind ==
  IF Len(Recognized) = 0 THEN "NoInterpretableObjects"
  ELSE IF CountColor("green") = 0 THEN "MissingStart"
  ELSE IF CountColor("green") > 1 THEN "DuplicateStart"
  ELSE IF CountColor("red") = 0 THEN "MissingEnd"
  ELSE IF CountColor("red") > 1 THEN "DuplicateEnd"
  ELSE "Graph"

\* C4: a graph is returned exactly when the input has one green and one red
\* object; otherwise the failure is NoInterpretableObjects, MissingStart,
\* DuplicateStart, MissingEnd or DuplicateEnd, decided in this order
C4_OutcomeKind ==
  pc = "called" =>
    /\ outcome.kind = ExpectedKind
    /\ outcome.kind = "Graph" <=> (CountColor("green") = 1 /\ CountColor("red") = 1)

\* an input with recognized objects but neither green nor red
C4_Witness ==
  /\ pc = "called"
  /\ Len(Recognized) = 2
  /\ CountColor("green") = 0 /\ CountColor("red") = 0
  /\ outcome.kind = "MissingStart"

\* C5: the count of a DuplicateStart (DuplicateEnd) failure is the number of
\* green (red) objects of the input list, and is at least 2
C5_DuplicateCount ==
  pc = "called" =>
    /\ outcome.kind = "DuplicateStart" =>
         outcome.count = CountColor("green") /\ outcome.count >= 2
    /\ outcome.kind = "DuplicateEnd" =>
         outcome.count = CountColor("red") /\ outcome.count >= 2

C5_Witness ==
  /\ pc = "called"
  /\ outcome.kind = "DuplicateEnd"
  /\ outcome.count = 2
  /\ Len(bricks) = 3

\* C6: the nodes of a returned graph are the recognized objects, one node per
\* object with the object's identifier and the kind of its colour; every edge
\* end is the identifier of a node
C6_NodesAreRecognized ==
  Returned =>
    /\ Len(outcome.nodes) = Len(Recognized)
    /\ \A i \in 1..Len(Recognized) :
         LET nd == Node(Recognized[i].id, KindOf(Recognized[i].color))
         IN Cardinality({j \in 1..Len(outcome.nodes) : outcome.nodes[j] = nd})
            = Cardinality({j \in 1..Len(Recognized) :
                             Node(Recognized[j].id, KindOf(Recognized[j].color)) = nd})
    /\ \A i \in EdgeIdx : outcome.edges[i][1] \in NodeIds /\ outcome.edges[i][2] \in NodeIds
    /\ CountKind("Start") = CountColor("green")
    /\ CountKind("End") = CountColor("red")

\* a graph returned for a list that holds an object of an unrecognized colour
C6_Witness ==
  /\ Returned
  /\ CountColor("purple") = 1
  /\ Len(bricks) = 3
  /\ Len(outcome.nodes) = 2

\* the place of recognized object j in a stable ascending sort on x
Rank(j) ==
  1 + Cardinality({k \in 1..Len(Recognized) :
                     \/ Recognized[k].x < Recognized[j].x
                     \/ Recognized[k].x = Recognized[j].x /\ k < j})

StableOrder ==
  /\ Len(outcome.nodes) = Len(Recognized)
  /\ \A j \in 1..Len(Recognized) : outcome.nodes[Rank(j)].id = Recognized[j].id

\* C7: a call on the list of the preceding call, or on a probe list called
\* earlier with other calls in between, gives the outcome it gave before, and
\* in a returned graph objects of equal x keep their input order
C7_DeterministicStable ==
  [][pc' = "called" =>
       /\ (pc = "called" /\ bricks' = bricks) => outcome' = outcome
       /\ (bricks' \in Probes /\ memo[bricks'].kind # "None") => outcome' = memo[bricks']
       /\ outcome'.kind = "Graph" => StableOrder']_vars

\* a graph for a list with two objects of equal x, returned after a call on
\* each probe list
C7_Witness ==
  /\ Returned
  /\ bricks \notin Probes
  /\ \E i, j \in 1..Len(Recognized) : i < j /\ Recognized[i].x = Recognized[j].x
  /\ memo[example_bricks].kind = "Graph"
  /\ memo[example_prefix].kind = "MissingEnd"

(***************************************************************************)
(* Properties of detect_bricks_from_image.                                 *)
(***************************************************************************)
\* the place of a colour in the order green, blue, yellow, red
ClassPos(c) == CASE c = "green" -> 1 [] c = "blue" -> 2 [] c = "yellow" -> 3 [] c = "red" -> 4

\* C8: the identifiers of the returned list are b1, b2, ..., bk in list order,
\* and no object of a later colour class precedes one of an earlier class
C8_SequentialIdsGrouped ==
  pc \in {"returned", "analyzed"} =>
    /\ \A i \in 1..Len(bricks) : bricks[i].id = <<"b", i>>
    /\ \A i, j \in 1..Len(bricks) :
         i < j => ClassPos(bricks[i].color) <= ClassPos(bricks[j].color)

\* a returned list of several colours from a call that rejected a region
C8_Witness ==
  /\ pc = "returned"
  /\ skipped
  /\ Len(bricks) >= 3
  /\ bricks[1].color # bricks[Len(bricks)].color

\* C9: a pixel of hue 2 or 178 whose saturation and value are inside the red
\* bounds is in the red mask, and a pixel of hue 90 never is
C9_RedWraparound ==
  pc = "masked" =>
    /\ (hsv[1] \in {2, 178} /\ hsv[2] >= 50 /\ hsv[3] >= 50) => "red" \in mask
    /\ hsv[1] = 90 => "red" \notin mask

C9_Witness == pc = "masked" /\ hsv[1] = 178 /\ "red" \in mask

\* C10: a pixel is in the mask of at most one of the four colour classes
C10_MutuallyExclusive == pc = "masked" => Cardinality(mask) <= 1

====
